---- MODULE Spec2Model ----
(***************************************************************************)
(* Americano padel tournaments: the pairing engine                         *)
(* (app/services/americano_service.py) and the tournament lifecycle        *)
(* (app/services/tournament_service.py, the admin service, the roster      *)
(* repository and the HTTP endpoints that drive them).                     *)
(*                                                                         *)
(* The pairing engine is a pure function and is modelled by operators.     *)
(* The lifecycle is modelled as request handlers that each own a database  *)
(* session: a handler reads rows into its session (a snapshot), changes    *)
(* the loaded objects, and commits; the commit writes the changed columns  *)
(* with the values the handler computed.                                   *)
(***************************************************************************)
EXTENDS Integers, Sequences, FiniteSets, Bags, TLC

\* ------------------------------------------------------------------------
\* Bounds
\* ------------------------------------------------------------------------
\* rosters handed to generate_rounds have 0 .. 4 * MaxGroups players
MaxGroups == 3
\* users that exist; a tournament admits at most MaxPlayers of them
NumUsers == 5
\* requests of every kind that a run receives
MaxRequests == 3
\* the tournament's points_per_match
PointsPerMatch == 1
\* courts and hours a planner call may be given
MaxCourts == 2
MaxHours == 2
\* rating updates applied one after another
MaxUpdates == 3

\* ------------------------------------------------------------------------
\* Helpers
\* ------------------------------------------------------------------------
Min(a, b) == IF a <= b THEN a ELSE b
Max(a, b) == IF a >= b THEN a ELSE b

RECURSIVE SumSeq(_)
SumSeq(s) == IF s = <<>> THEN 0 ELSE Head(s) + SumSeq(Tail(s))

RECURSIVE Flatten(_)
Flatten(ss) == IF ss = <<>> THEN <<>> ELSE Head(ss) \o Flatten(Tail(ss))

\* ------------------------------------------------------------------------
\* Pairing engine (AmericanoTournamentService)
\* ------------------------------------------------------------------------
\* a validation that accepts every even count from 4 on
validate_player_count_even(total_players) ==
    total_players >= 4 /\ total_players % 2 = 0

\* validate_player_count: total_players >= 4 and total_players % 4 == 0
validate_player_count(total_players) ==
    total_players >= 4 /\ total_players % 4 = 0

\* a rotation that moves nothing
rotate_top_stuck(top) == top

\* top = [top[-1]] + top[:-1]
rotate_top(top) ==
    IF Len(top) = 0 THEN top
    ELSE <<top[Len(top)]>> \o SubSeq(top, 1, Len(top) - 1)

\* the pairs of one iteration: arrangement = [0] + top, pair i with n-1-i
\* (vertices are 0-based as in the code; sequences are 1-based)
factor_pairs(n, top) ==
    LET arrangement == <<0>> \o top
    IN  [i \in 1..(n \div 2) |-> <<arrangement[i], arrangement[n + 1 - i]>>]

\* one iteration too few
RECURSIVE factor_loop_short(_, _, _)
factor_loop_short(n, top, k) ==
    IF k <= 1 THEN <<>>
    ELSE <<factor_pairs(n, top)>> \o factor_loop_short(n, rotate_top(top), k - 1)

RECURSIVE factor_loop(_, _, _)
factor_loop(n, top, k) ==
    IF k = 0 THEN <<>>
    ELSE <<factor_pairs(n, top)>> \o factor_loop(n, rotate_top(top), k - 1)

\* _one_factorization(n): n-1 perfect matchings by the circle method
one_factorization(n) ==
    factor_loop(n, [i \in 1..(n - 1) |-> i], n - 1)

\* rest[:i] + rest[i+1:]
RemoveAt(s, i) == SubSeq(s, 1, i - 1) \o SubSeq(s, i + 1, Len(s))

\* _pairings_of_edges(edges): every way to pair up the edges, in generation
\* order (first edge with each later edge in turn, then recursively)
RECURSIVE pairings_of_edges(_)
pairings_of_edges(edges) ==
    IF edges = <<>> THEN << <<>> >>
    ELSE LET first == Head(edges)
             rest  == Tail(edges)
             withI(i) ==
                 LET subs == pairings_of_edges(RemoveAt(rest, i))
                 IN  [j \in 1..Len(subs) |-> << <<first, rest[i]>> >> \o subs[j]]
         IN  Flatten([i \in 1..Len(rest) |-> withI(i)])

\* cp = (min(u, v), max(u, v))
cross_pair(u, v) == <<Min(u, v), Max(u, v)>>

\* the four (u, v) with u in (a, b), v in (c, d), in loop order
cross_of(m) ==
    << cross_pair(m[1][1], m[2][1]), cross_pair(m[1][1], m[2][2]),
       cross_pair(m[1][2], m[2][1]), cross_pair(m[1][2], m[2][2]) >>

\* new_cross of one candidate pairing against cross_covered
new_cross_of(pairing, cross_covered) ==
    SumSeq([k \in 1..Len(pairing) |->
        SumSeq([j \in 1..4 |->
            IF cross_of(pairing[k])[j] \notin cross_covered THEN 1 ELSE 0])])

\* the scan with >= in place of >: the last maximum wins, not the first
RECURSIVE choose_pairing_last(_, _, _, _, _, _)
choose_pairing_last(pairings, i, best, max_new_cross, cross_covered, n) ==
    IF i > Len(pairings) THEN best
    ELSE LET new_cross == new_cross_of(pairings[i], cross_covered)
         IN  IF new_cross >= max_new_cross
             THEN choose_pairing_last(pairings, i + 1, i, new_cross, cross_covered, n)
             ELSE choose_pairing_last(pairings, i + 1, best, max_new_cross, cross_covered, n)

\* the scan "for pairing in pairings" with best_pairing / max_new_cross and
\* the early exit; best = 0 stands for best_pairing = None
RECURSIVE choose_pairing(_, _, _, _, _, _)
choose_pairing(pairings, i, best, max_new_cross, cross_covered, n) ==
    IF i > Len(pairings) THEN best
    ELSE LET new_cross == new_cross_of(pairings[i], cross_covered)
         IN  IF new_cross > max_new_cross
             THEN IF new_cross = (n * (n - 1)) \div 2 - Cardinality(cross_covered)
                  THEN i
                  ELSE choose_pairing(pairings, i + 1, i, new_cross, cross_covered, n)
             ELSE choose_pairing(pairings, i + 1, best, max_new_cross, cross_covered, n)

best_pairing_of(round_pairs, cross_covered, n) ==
    LET pairings == pairings_of_edges(round_pairs)
    IN  pairings[choose_pairing(pairings, 1, 0, -1, cross_covered, n)]

\* cross_covered after the matches of best_pairing are recorded
covered_after(best_pairing, cross_covered) ==
    cross_covered \cup
        UNION { {cross_of(best_pairing[k])[j] : j \in 1..4} : k \in 1..Len(best_pairing) }

\* round_matches: (player_ids[a], player_ids[b], player_ids[c], player_ids[d])
round_matches_of(best_pairing, player_ids) ==
    [k \in 1..Len(best_pairing) |->
        << player_ids[best_pairing[k][1][1] + 1], player_ids[best_pairing[k][1][2] + 1],
           player_ids[best_pairing[k][2][1] + 1], player_ids[best_pairing[k][2][2] + 1] >>]

RECURSIVE balanced_loop(_, _, _, _)
balanced_loop(player_ids, factorization, r, cross_covered) ==
    IF r > Len(factorization) THEN <<>>
    ELSE LET best == best_pairing_of(factorization[r], cross_covered, Len(player_ids))
         IN  <<round_matches_of(best, player_ids)>> \o
             balanced_loop(player_ids, factorization, r + 1,
                           covered_after(best, cross_covered))

\* _generate_balanced_americano_rounds(player_ids, factorization)
generate_balanced_americano_rounds(player_ids, factorization) ==
    balanced_loop(player_ids, factorization, 1, {})

\* generate_rounds; the caller sees raised = TRUE for the ValueError
generate_rounds(player_ids) ==
    IF ~validate_player_count(Len(player_ids))
    THEN [raised |-> TRUE, rounds |-> <<>>]
    ELSE [raised |-> FALSE,
          rounds |-> generate_balanced_americano_rounds(
                         player_ids, one_factorization(Len(player_ids)))]

\* ------------------------------------------------------------------------
\* State
\* ------------------------------------------------------------------------
VARIABLES
    pg_players,     \* the ordered roster handed to generate_rounds
    pg_called,      \* generate_rounds has returned or raised
    pg_result,      \* what it returned
    fn_args,        \* the arguments handed to a pure function called on its own
    fn_result,      \* the function called and what it returned
    status,         \* tournaments.status (committed)
    current_round,  \* tournaments.current_round (committed)
    players,        \* tournament_player rows of the tournament (committed)
    rounds,         \* rounds table: the matches, in insertion order (committed)
    ratings,        \* player_ratings rows by user id (committed)
    rating_history, \* rating_history rows, a bag (committed)
    results,        \* tournament_results rows of the tournament (committed)
    req,            \* per request slot: the handler running there and its session
    n_requests      \* requests received so far

pgvars == <<pg_players, pg_called, pg_result, fn_args, fn_result>>
dbvars == <<status, current_round, players, rounds, ratings, rating_history, results>>
vars == <<pg_players, pg_called, pg_result, fn_args, fn_result, status, current_round,
          players, rounds, ratings, rating_history, results, req, n_requests>>

Users == 1..NumUsers
Slots == {1, 2}
\* tournaments.max_players of the modelled tournament
MaxPlayers == NumUsers - 1

\* TournamentStatus
PENDING == "pending"
ACTIVE == "active"
COMPLETED == "completed"
TournamentStatus == {PENDING, ACTIVE, COMPLETED}

\* no pure function has been called on its own
NotCalled == [fn |-> "none"]

Idle == [pc |-> "idle"]
\* the handler has answered; its session is not closed yet
Done(op, resp) == [pc |-> "done", op |-> op, resp |-> resp]

\* tournament.players as the session loads it: ascending user id
RECURSIVE players_list(_)
players_list(S) ==
    IF S = {} THEN <<>>
    ELSE LET p == CHOOSE x \in S : \A y \in S : x <= y
         IN  <<p>> \o players_list(S \ {p})

\* ordered rosters: the ids 1..n in every rotation, for n = 0 .. 4 * MaxGroups
RosterInputs ==
    { [i \in 1..n |-> ((i - 1 + s) % n) + 1] : n \in 1..(4 * MaxGroups), s \in 0..(4 * MaxGroups - 1) }
      \cup { <<>> }

\* a tournament as create_tournament leaves it (status pending, current_round
\* 1, no rounds); roster is the set of players who have joined it
InitDb(roster) ==
    /\ status = PENDING
    /\ current_round = 1
    /\ players = roster
    /\ rounds = <<>>
    /\ ratings = << >>
    /\ rating_history = EmptyBag
    /\ results = {}
    /\ req = [r \in Slots |-> Idle]
    /\ n_requests = 0

InitPairing ==
    /\ pg_players \in RosterInputs
    /\ pg_called = FALSE
    /\ pg_result = [raised |-> FALSE, rounds |-> <<>>]
    /\ fn_args = <<>>
    /\ fn_result = NotCalled
    /\ InitDb({})

\* a pending tournament with any roster of at most max_players users
InitSetup ==
    /\ pg_players = <<>>
    /\ pg_called = FALSE
    /\ pg_result = [raised |-> FALSE, rounds |-> <<>>]
    /\ fn_args = <<>>
    /\ fn_result = NotCalled
    /\ \E roster \in SUBSET Users :
          /\ Cardinality(roster) <= MaxPlayers
          /\ InitDb(roster)

\* ------------------------------------------------------------------------
\* generate_rounds called on its own
\* ------------------------------------------------------------------------
GenerateRounds ==
    /\ ~pg_called
    /\ pg_called' = TRUE
    /\ pg_result' = generate_rounds(pg_players)
    /\ UNCHANGED <<pg_players, fn_args, fn_result, dbvars, req, n_requests>>

NextPairing == GenerateRounds

SpecPairing == InitPairing /\ [][NextPairing]_vars

\* a request arrives at a free slot
Arrives(r) ==
    /\ req[r] = Idle
    /\ n_requests < MaxRequests
    /\ n_requests' = n_requests + 1

\* ------------------------------------------------------------------------
\* Roster (TournamentRepository)
\* ------------------------------------------------------------------------
\* join_tournament up to the commit: load the tournament with its players,
\* run the checks on what was loaded
JoinLoad(r, p) ==
    /\ Arrives(r)
    /\ req' = [req EXCEPT ![r] =
         IF status # PENDING THEN Done("join", "WrongStatus")
         ELSE IF Cardinality(players) >= MaxPlayers THEN Done("join", "TournamentFull")
         ELSE IF p \in players THEN Done("join", "AlreadyJoined")
         ELSE IF p \notin Users THEN Done("join", "NotFound")
         ELSE [pc |-> "loaded", op |-> "join", player |-> p]]
    /\ UNCHANGED <<pgvars, dbvars>>

\* tournament.players.append(user); commit: one tournament_player row is
\* inserted; its primary key (tournament_id, player_id) rejects a duplicate
JoinCommit(r) ==
    /\ req[r].pc = "loaded" /\ req[r].op = "join"
    /\ IF req[r].player \in players
       THEN /\ req' = [req EXCEPT ![r] = Done("join", "Conflict")]
            /\ UNCHANGED players
       ELSE /\ req' = [req EXCEPT ![r] = Done("join", "ok")]
            /\ players' = players \cup {req[r].player}
    /\ UNCHANGED <<pgvars, status, current_round, rounds, ratings, rating_history, results,
                   n_requests>>

\* leave_tournament up to the commit
LeaveLoad(r, p) ==
    /\ Arrives(r)
    /\ req' = [req EXCEPT ![r] =
         IF status # PENDING THEN Done("leave", "WrongStatus")
         ELSE IF p \notin players THEN Done("leave", "NotInTournament")
         ELSE [pc |-> "loaded", op |-> "leave", player |-> p]]
    /\ UNCHANGED <<pgvars, dbvars>>

\* tournament.players.remove(player); commit: the row is deleted; a delete
\* that matches no row fails the flush
LeaveCommit(r) ==
    /\ req[r].pc = "loaded" /\ req[r].op = "leave"
    /\ IF req[r].player \notin players
       THEN /\ req' = [req EXCEPT ![r] = Done("leave", "Conflict")]
            /\ UNCHANGED players
       ELSE /\ req' = [req EXCEPT ![r] = Done("leave", "ok")]
            /\ players' = players \ {req[r].player}
    /\ UNCHANGED <<pgvars, status, current_round, rounds, ratings, rating_history, results,
                   n_requests>>

\* tournaments.created_by of the modelled tournament, and the callers of the
\* organiser operations
created_by == 1
OrganizerInputs == {1, 2}

\* add_player_to_tournament up to the commit
AddPlayerLoad(r, p, organizer_id) ==
    /\ Arrives(r)
    /\ req' = [req EXCEPT ![r] =
         IF created_by # organizer_id THEN Done("add_player", "NotOrganizer")
         ELSE IF status # PENDING THEN Done("add_player", "WrongStatus")
         ELSE IF Cardinality(players) >= MaxPlayers THEN Done("add_player", "TournamentFull")
         ELSE IF p \in players THEN Done("add_player", "AlreadyJoined")
         ELSE IF p \notin Users THEN Done("add_player", "NotFound")
         ELSE [pc |-> "loaded", op |-> "add_player", player |-> p]]
    /\ UNCHANGED <<pgvars, dbvars>>

\* tournament.players.append(user); commit, as in join_tournament
AddPlayerCommit(r) ==
    /\ req[r].pc = "loaded" /\ req[r].op = "add_player"
    /\ IF req[r].player \in players
       THEN /\ req' = [req EXCEPT ![r] = Done("add_player", "Conflict")]
            /\ UNCHANGED players
       ELSE /\ req' = [req EXCEPT ![r] = Done("add_player", "ok")]
            /\ players' = players \cup {req[r].player}
    /\ UNCHANGED <<pgvars, status, current_round, rounds, ratings, rating_history, results,
                   n_requests>>

\* remove_player_from_tournament up to the commit
RemovePlayerLoad(r, p, organizer_id) ==
    /\ Arrives(r)
    /\ req' = [req EXCEPT ![r] =
         IF created_by # organizer_id THEN Done("remove_player", "NotOrganizer")
         ELSE IF status # PENDING THEN Done("remove_player", "WrongStatus")
         ELSE IF p \notin players THEN Done("remove_player", "NotInTournament")
         ELSE [pc |-> "loaded", op |-> "remove_player", player |-> p]]
    /\ UNCHANGED <<pgvars, dbvars>>

\* tournament.players.remove(player); commit, as in leave_tournament
RemovePlayerCommit(r) ==
    /\ req[r].pc = "loaded" /\ req[r].op = "remove_player"
    /\ IF req[r].player \notin players
       THEN /\ req' = [req EXCEPT ![r] = Done("remove_player", "Conflict")]
            /\ UNCHANGED players
       ELSE /\ req' = [req EXCEPT ![r] = Done("remove_player", "ok")]
            /\ players' = players \ {req[r].player}
    /\ UNCHANGED <<pgvars, status, current_round, rounds, ratings, rating_history, results,
                   n_requests>>

\* ------------------------------------------------------------------------
\* start (endpoint start_tournament and TournamentService.start_tournament)
\* ------------------------------------------------------------------------
\* Round(...) rows for the schedule; scores default to 0, is_completed to False
new_round_rows(rounds_data) ==
    Flatten([n \in 1..Len(rounds_data) |->
        [k \in 1..Len(rounds_data[n]) |->
            [round_number     |-> n,
             team1_player1_id |-> rounds_data[n][k][1],
             team1_player2_id |-> rounds_data[n][k][2],
             team2_player1_id |-> rounds_data[n][k][3],
             team2_player2_id |-> rounds_data[n][k][4],
             team1_score      |-> 0,
             team2_score      |-> 0,
             is_completed     |-> FALSE]]])

\* start that takes any roster of four or more
StartLoad_any_roster(r) ==
    /\ Arrives(r)
    /\ req' = [req EXCEPT ![r] =
         IF status # PENDING THEN Done("start", "WrongStatus")
         ELSE IF Cardinality(players) < 4 THEN Done("start", "InvalidRoster")
         ELSE [pc |-> "loaded", op |-> "start",
               snap_players |-> players, snap_round |-> current_round]]
    /\ UNCHANGED <<pgvars, dbvars>>

\* The tournament is loaded once, by the organiser dependency; the session
\* keeps the loaded object (expire_on_commit = False), so the endpoint's and
\* the service's checks all read that one snapshot.
StartLoad(r) ==
    /\ Arrives(r)
    /\ req' = [req EXCEPT ![r] =
         IF status # PENDING THEN Done("start", "WrongStatus")
         ELSE IF Cardinality(players) < 4 THEN Done("start", "InvalidRoster")
         ELSE IF ~validate_player_count(Cardinality(players))
              THEN Done("start", "InvalidRoster")
         ELSE [pc |-> "loaded", op |-> "start",
               snap_players |-> players, snap_round |-> current_round]]
    /\ UNCHANGED <<pgvars, dbvars>>

\* start that commits the rounds first and the status in a later transaction
StartCommit_rounds_only(r) ==
    /\ req[r].pc = "loaded" /\ req[r].op = "start"
    /\ LET rounds_data == generate_rounds(players_list(req[r].snap_players)).rounds
       IN  rounds' = rounds \o new_round_rows(rounds_data)
    /\ req' = [req EXCEPT ![r] = Done("start", "ok")]
    /\ UNCHANGED <<pgvars, status, current_round, players, ratings, rating_history, results,
                   n_requests>>

\* generate_rounds, db.add of every Round, status and current_round set,
\* one commit: the rows are inserted and the changed tournament columns
\* written in one transaction
StartCommit(r) ==
    /\ req[r].pc = "loaded" /\ req[r].op = "start"
    /\ LET rounds_data == generate_rounds(players_list(req[r].snap_players)).rounds
       IN  rounds' = rounds \o new_round_rows(rounds_data)
    /\ status' = ACTIVE
    /\ current_round' = IF req[r].snap_round # 1 THEN 1 ELSE current_round
    /\ req' = [req EXCEPT ![r] = Done("start", "ok")]
    /\ UNCHANGED <<pgvars, players, ratings, rating_history, results, n_requests>>

\* ------------------------------------------------------------------------
\* record-result (TournamentService.record_match_result)
\* ------------------------------------------------------------------------
NoMatch == 0
MatchIds == 1..Len(rounds)
\* scores a caller may send: one below zero up to one above points_per_match
ScoreInputs == (0 - 1)..(PointsPerMatch + 1)

\* the UPDATE a flush sends names the columns whose value differs from the
\* value the session loaded; the others keep what is committed
dirty_write(committed, loaded, new) == IF new # loaded THEN new ELSE committed

\* the rounds row after the session's match object is flushed
flush_match(row, snap, team1_score, team2_score) ==
    [row EXCEPT !.team1_score  = dirty_write(row.team1_score, snap.team1_score, team1_score),
                !.team2_score  = dirty_write(row.team2_score, snap.team2_score, team2_score),
                !.is_completed = dirty_write(row.is_completed, snap.is_completed, TRUE)]

\* get_or_create_rating: the row of the user, a fresh one when there is none
\* (the integer columns of PlayerRating; a new row has every counter at 0)
NewRating ==
    [matches_played |-> 0, matches_won |-> 0,
     total_points_scored |-> 0, total_points_possible |-> 0,
     tournaments_played |-> 0, first_place_finishes |-> 0,
     second_place_finishes |-> 0, third_place_finishes |-> 0]

get_or_create_rating(rs, user_id) ==
    IF user_id \in DOMAIN rs THEN rs[user_id] ELSE NewRating

\* the counters of a row that an update leaves matches_played out of
apply_update_uncounted(rating, own_score, other_score) ==
    [rating EXCEPT
       !.matches_won           = @ + (IF own_score > other_score THEN 1 ELSE 0),
       !.total_points_scored   = @ + own_score,
       !.total_points_possible = @ + own_score + other_score]

\* the columns of one player's row after "Apply updates"
apply_update(rating, own_score, other_score) ==
    [rating EXCEPT
       !.matches_played        = @ + 1,
       !.matches_won           = @ + (IF own_score > other_score THEN 1 ELSE 0),
       !.total_points_scored   = @ + own_score,
       !.total_points_possible = @ + own_score + other_score]

Team1(m) == {m.team1_player1_id, m.team1_player2_id}
Team2(m) == {m.team2_player1_id, m.team2_player2_id}

\* update_match_ratings, the player_ratings rows: m is the session's match
\* object, already carrying the new scores
update_match_ratings(rs, m) ==
    [u \in DOMAIN rs \cup Team1(m) \cup Team2(m) |->
        IF u \in Team1(m)
        THEN apply_update(get_or_create_rating(rs, u), m.team1_score, m.team2_score)
        ELSE IF u \in Team2(m)
        THEN apply_update(get_or_create_rating(rs, u), m.team2_score, m.team1_score)
        ELSE rs[u]]

\* update_match_ratings, the RatingHistory rows it adds: one per player, with
\* match_result "own-other"
history_rows(match_id, m) ==
    SetToBag({[user_id |-> u, match_id |-> match_id,
               match_result |-> <<m.team1_score, m.team2_score>>] : u \in Team1(m)})
    (+)
    SetToBag({[user_id |-> u, match_id |-> match_id,
               match_result |-> <<m.team2_score, m.team1_score>>] : u \in Team2(m)})

\* _calculate_optimal_rounds / get_total_rounds
get_total_rounds(total_players) == Max(total_players - 1, 3)

\* is_tournament_complete
is_tournament_complete(total_players, round_no) ==
    round_no > get_total_rounds(total_players)

\* record_match_result without the check of the sum
RecordLoad_no_sum_check(r, match_id, team1_score, team2_score) ==
    /\ Arrives(r)
    /\ req' = [req EXCEPT ![r] =
         IF match_id \notin MatchIds THEN Done("record", "NotFound")
         ELSE IF status = COMPLETED THEN Done("record", "WrongStatus")
         ELSE IF team1_score < 0 \/ team2_score < 0 THEN Done("record", "InvalidScore")
         ELSE [pc |-> "loaded", op |-> "record", match_id |-> match_id,
               team1_score |-> team1_score, team2_score |-> team2_score,
               snap_match |-> rounds[match_id],
               snap_round |-> current_round,
               snap_total_players |-> Cardinality(players)]]
    /\ UNCHANGED <<pgvars, dbvars>>

\* record_match_result down to "Record the result": the match and the
\* tournament are loaded and the checks run on what was loaded
RecordLoad(r, match_id, team1_score, team2_score) ==
    /\ Arrives(r)
    /\ req' = [req EXCEPT ![r] =
         IF match_id \notin MatchIds THEN Done("record", "NotFound")
         ELSE IF status = COMPLETED THEN Done("record", "WrongStatus")
         ELSE IF team1_score < 0 \/ team2_score < 0 THEN Done("record", "InvalidScore")
         ELSE IF team1_score + team2_score # PointsPerMatch
              THEN Done("record", "InvalidScore")
         ELSE [pc |-> "loaded", op |-> "record", match_id |-> match_id,
               team1_score |-> team1_score, team2_score |-> team2_score,
               snap_match |-> rounds[match_id],
               snap_round |-> current_round,
               snap_total_players |-> Cardinality(players)]]
    /\ UNCHANGED <<pgvars, dbvars>>

\* the scores and the flag set on the match, update_match_ratings (which
\* loads the four ratings, changes them and flushes), db.commit(): the match
\* row, the rating rows and the history rows are written in one transaction
RecordCommit(r) ==
    /\ req[r].pc = "loaded" /\ req[r].op = "record"
    /\ LET id == req[r].match_id
           m  == [req[r].snap_match EXCEPT !.team1_score = req[r].team1_score,
                                           !.team2_score = req[r].team2_score,
                                           !.is_completed = TRUE]
       IN  /\ rounds' = [rounds EXCEPT ![id] =
                  flush_match(rounds[id], req[r].snap_match,
                              req[r].team1_score, req[r].team2_score)]
           /\ ratings' = update_match_ratings(ratings, m)
           /\ rating_history' = rating_history (+) history_rows(id, m)
    /\ req' = [req EXCEPT ![r] =
         [pc |-> "committed", op |-> "record", match_id |-> req[r].match_id,
          snap_round |-> req[r].snap_round,
          snap_total_players |-> req[r].snap_total_players]]
    /\ UNCHANGED <<pgvars, status, current_round, players, results, n_requests>>

\* _check_and_advance_round: the session still holds the tournament it
\* loaded (expire_on_commit = False), so tournament.current_round is the
\* loaded value; the matches of that round are queried afresh
RecordAdvance(r) ==
    /\ req[r].pc = "committed" /\ req[r].op = "record"
    /\ LET cr == req[r].snap_round
           current_round_matches == {k \in MatchIds : rounds[k].round_number = cr}
       IN  current_round' =
               IF /\ \A k \in current_round_matches : rounds[k].is_completed
                  /\ ~is_tournament_complete(req[r].snap_total_players, cr + 1)
               THEN cr + 1
               ELSE current_round
    /\ req' = [req EXCEPT ![r] = Done("record", "ok")]
    /\ UNCHANGED <<pgvars, status, players, rounds, ratings, rating_history, results, n_requests>>

\* ------------------------------------------------------------------------
\* administrative result override (AdminTournamentService.update_match_result)
\* ------------------------------------------------------------------------
\* the request schema refuses a negative score; then the match is looked up
\* and the sum checked
AdminResultLoad(r, match_id, team1_score, team2_score) ==
    /\ Arrives(r)
    /\ req' = [req EXCEPT ![r] =
         IF team1_score < 0 \/ team2_score < 0 THEN Done("update_match_result", "InvalidInput")
         ELSE IF match_id \notin MatchIds THEN Done("update_match_result", "NotFound")
         ELSE IF team1_score + team2_score # PointsPerMatch
              THEN Done("update_match_result", "InvalidScore")
         ELSE [pc |-> "loaded", op |-> "update_match_result", match_id |-> match_id,
               team1_score |-> team1_score, team2_score |-> team2_score,
               snap_match |-> rounds[match_id]]]
    /\ UNCHANGED <<pgvars, dbvars>>

\* scores and flag set, commit; no rating update, no round check
AdminResultCommit(r) ==
    /\ req[r].pc = "loaded" /\ req[r].op = "update_match_result"
    /\ rounds' = [rounds EXCEPT ![req[r].match_id] =
           flush_match(rounds[req[r].match_id], req[r].snap_match,
                       req[r].team1_score, req[r].team2_score)]
    /\ req' = [req EXCEPT ![r] = Done("update_match_result", "ok")]
    /\ UNCHANGED <<pgvars, status, current_round, players, ratings, rating_history, results,
                   n_requests>>

\* ------------------------------------------------------------------------
\* Scoring (AmericanoTournamentService) and the orders derived from it
\* ------------------------------------------------------------------------
SeqToSet(s) == {s[i] : i \in DOMAIN s}

\* the four player ids of a match, in the order the loops visit them
MatchPlayers(m) ==
    <<m.team1_player1_id, m.team1_player2_id, m.team2_player1_id, m.team2_player2_id>>

\* player_scores[pid] / player_stats[pid] of a player outside self.players
\* is a KeyError
stats_key_error(player_ids, completed_rounds) ==
    \E k \in DOMAIN completed_rounds :
        /\ completed_rounds[k].is_completed
        /\ \E j \in 1..4 : MatchPlayers(completed_rounds[k])[j] \notin SeqToSet(player_ids)

\* scores that also count a match that is not completed
scores_after_match_any(player_scores, m) ==
    LET a == [player_scores EXCEPT ![m.team1_player1_id] = @ + m.team1_score]
        b == [a EXCEPT ![m.team1_player2_id] = @ + m.team1_score]
        c == [b EXCEPT ![m.team2_player1_id] = @ + m.team2_score]
    IN  [c EXCEPT ![m.team2_player2_id] = @ + m.team2_score]

\* calculate_player_scores: the four += of one match
scores_after_match(player_scores, m) ==
    IF ~m.is_completed THEN player_scores
    ELSE LET a == [player_scores EXCEPT ![m.team1_player1_id] = @ + m.team1_score]
             b == [a EXCEPT ![m.team1_player2_id] = @ + m.team1_score]
             c == [b EXCEPT ![m.team2_player1_id] = @ + m.team2_score]
         IN  [c EXCEPT ![m.team2_player2_id] = @ + m.team2_score]

RECURSIVE scores_loop(_, _, _)
scores_loop(player_scores, completed_rounds, k) ==
    IF k > Len(completed_rounds) THEN player_scores
    ELSE scores_loop(scores_after_match(player_scores, completed_rounds[k]),
                     completed_rounds, k + 1)

calculate_player_scores(player_ids, completed_rounds) ==
    IF stats_key_error(player_ids, completed_rounds)
    THEN [raised |-> TRUE, scores |-> << >>]
    ELSE [raised |-> FALSE,
          scores |-> scores_loop([p \in SeqToSet(player_ids) |-> 0], completed_rounds, 1)]

\* calculate_player_statistics: the entry of a new player
NewStats ==
    [total_points |-> 0, points_earned |-> 0, points_conceded |-> 0,
     points_difference |-> 0, wins |-> 0, losses |-> 0, ties |-> 0,
     matches_played |-> 0]

\* the body of the loop over one team's players, for one player
add_stats(player_stats, pid, own, other) ==
    [player_stats EXCEPT ![pid] =
        [total_points      |-> @.total_points + own,
         points_earned     |-> @.points_earned + own,
         points_conceded   |-> @.points_conceded + other,
         points_difference |-> @.points_difference + (own - other),
         wins              |-> @.wins + (IF own > other THEN 1 ELSE 0),
         losses            |-> @.losses + (IF other > own THEN 1 ELSE 0),
         ties              |-> @.ties + (IF own = other THEN 1 ELSE 0),
         matches_played    |-> @.matches_played + 1]]

\* statistics that read the scores of both teams from team 1's side
stats_after_match_team1_side(player_stats, m) ==
    IF ~m.is_completed THEN player_stats
    ELSE LET t1 == m.team1_score
             t2 == m.team2_score
             a == add_stats(player_stats, m.team1_player1_id, t1, t2)
             b == add_stats(a, m.team1_player2_id, t1, t2)
             c == add_stats(b, m.team2_player1_id, t1, t2)
         IN  add_stats(c, m.team2_player2_id, t1, t2)

stats_after_match(player_stats, m) ==
    IF ~m.is_completed THEN player_stats
    ELSE LET t1 == m.team1_score
             t2 == m.team2_score
             a == add_stats(player_stats, m.team1_player1_id, t1, t2)
             b == add_stats(a, m.team1_player2_id, t1, t2)
             c == add_stats(b, m.team2_player1_id, t2, t1)
         IN  add_stats(c, m.team2_player2_id, t2, t1)

RECURSIVE stats_loop(_, _, _)
stats_loop(player_stats, completed_rounds, k) ==
    IF k > Len(completed_rounds) THEN player_stats
    ELSE stats_loop(stats_after_match(player_stats, completed_rounds[k]),
                    completed_rounds, k + 1)

calculate_player_statistics(player_ids, completed_rounds) ==
    IF stats_key_error(player_ids, completed_rounds)
    THEN [raised |-> TRUE, stats |-> << >>]
    ELSE [raised |-> FALSE,
          stats |-> stats_loop([p \in SeqToSet(player_ids) |-> NewStats],
                               completed_rounds, 1)]

\* player_stats.items(): the entries in the order the players were inserted
stats_items(player_ids, player_stats) ==
    [i \in 1..Len(player_ids) |->
        [player_id |-> player_ids[i], stats |-> player_stats[player_ids[i]]]]

\* the sort key (total_points, points_difference), compared as tuples
sort_key(item) == <<item.stats.total_points, item.stats.points_difference>>

key_greater(a, b) == a[1] > b[1] \/ (a[1] = b[1] /\ a[2] > b[2])

\* a descending sort that reverses items of equal key
last_greatest(items) ==
    CHOOSE i \in DOMAIN items :
        /\ \A j \in DOMAIN items : ~key_greater(sort_key(items[j]), sort_key(items[i]))
        /\ \A j \in (i + 1)..Len(items) : key_greater(sort_key(items[i]), sort_key(items[j]))

\* sorted(..., reverse=True) keeps items of equal key in their given order:
\* the next item is the first one no other item's key exceeds
first_greatest(items) ==
    CHOOSE i \in DOMAIN items :
        /\ \A j \in DOMAIN items : ~key_greater(sort_key(items[j]), sort_key(items[i]))
        /\ \A j \in 1..(i - 1) : key_greater(sort_key(items[i]), sort_key(items[j]))

RECURSIVE sorted_by_points(_)
sorted_by_points(items) ==
    IF items = <<>> THEN <<>>
    ELSE LET i == first_greatest(items)
         IN  <<items[i]>> \o sorted_by_points(RemoveAt(items, i))

\* the rounds with is_completed, as the query returns them
completed_rounds_of(all_rounds) == SelectSeq(all_rounds, LAMBDA m : m.is_completed)

\* get_tournament_leaderboard for a roster in its loaded order
get_tournament_leaderboard(player_ids, all_rounds) ==
    LET player_stats == calculate_player_statistics(player_ids,
                                                    completed_rounds_of(all_rounds))
        leaderboard == sorted_by_points(stats_items(player_ids, player_stats.stats))
    IN  IF player_stats.raised THEN [raised |-> TRUE, list |-> <<>>]
        ELSE [raised |-> FALSE,
              list |-> [i \in 1..Len(leaderboard) |->
                  [player_id         |-> leaderboard[i].player_id,
                   score             |-> leaderboard[i].stats.total_points,
                   points_difference |-> leaderboard[i].stats.points_difference,
                   rank              |-> i]]]

\* max(player_scores, key=player_scores.get): the first key, in the dict's
\* order, that no other key's score exceeds; the dict is in roster order
first_max_score(player_ids, player_scores) ==
    CHOOSE i \in DOMAIN player_ids :
        /\ \A j \in DOMAIN player_ids :
              player_scores[player_ids[j]] <= player_scores[player_ids[i]]
        /\ \A j \in 1..(i - 1) :
              player_scores[player_ids[j]] < player_scores[player_ids[i]]

\* get_tournament_winner for a roster in its loaded order: None unless the
\* tournament is completed and has players
get_tournament_winner(tournament_status, player_ids, all_rounds) ==
    LET player_scores == calculate_player_scores(player_ids,
                                                 completed_rounds_of(all_rounds))
    IN  IF tournament_status # COMPLETED THEN [raised |-> FALSE, found |-> FALSE]
        ELSE IF player_scores.raised THEN [raised |-> TRUE, found |-> FALSE]
        ELSE IF player_ids = <<>> THEN [raised |-> FALSE, found |-> FALSE]
        ELSE LET winner_id == player_ids[first_max_score(player_ids, player_scores.scores)]
             IN  [raised |-> FALSE, found |-> TRUE, player_id |-> winner_id,
                  score |-> player_scores.scores[winner_id]]

\* final results with the positions given in roster order, unsorted
final_results_unsorted(player_ids, all_rounds) ==
    LET player_stats == calculate_player_statistics(player_ids,
                                                    completed_rounds_of(all_rounds))
        sorted_players == stats_items(player_ids, player_stats.stats)
    IN  IF player_ids = <<>> \/ player_stats.raised THEN [raised |-> TRUE, rows |-> {}]
        ELSE [raised |-> FALSE,
              rows |-> {[player_id         |-> sorted_players[i].player_id,
                         final_position    |-> i,
                         total_score       |-> sorted_players[i].stats.total_points,
                         points_difference |-> sorted_players[i].stats.points_difference]
                        : i \in 1..Len(sorted_players)}]

\* calculate_and_store_final_results: the TournamentResult rows it builds
final_results(player_ids, all_rounds) ==
    LET player_stats == calculate_player_statistics(player_ids,
                                                    completed_rounds_of(all_rounds))
        sorted_players == sorted_by_points(stats_items(player_ids, player_stats.stats))
    IN  IF player_ids = <<>> \/ player_stats.raised THEN [raised |-> TRUE, rows |-> {}]
        ELSE [raised |-> FALSE,
              rows |-> {[player_id         |-> sorted_players[i].player_id,
                         final_position    |-> i,
                         total_score       |-> sorted_players[i].stats.total_points,
                         points_difference |-> sorted_players[i].stats.points_difference]
                        : i \in 1..Len(sorted_players)}]

\* ------------------------------------------------------------------------
\* finish (endpoint finish_tournament)
\* ------------------------------------------------------------------------
FinishLoad(r) ==
    /\ Arrives(r)
    /\ req' = [req EXCEPT ![r] =
         IF status # ACTIVE THEN Done("finish", "WrongStatus")
         ELSE [pc |-> "loaded", op |-> "finish"]]
    /\ UNCHANGED <<pgvars, dbvars>>

\* tournament.status = COMPLETED; commit
FinishCommit(r) ==
    /\ req[r].pc = "loaded" /\ req[r].op = "finish"
    /\ status' = COMPLETED
    /\ req' = [req EXCEPT ![r] = [pc |-> "committed", op |-> "finish"]]
    /\ UNCHANGED <<pgvars, current_round, players, rounds, ratings, rating_history, results,
                   n_requests>>

\* calculate_and_store_final_results inside try/except: the players and the
\* completed rounds are queried, the tournament's rows deleted and the new
\* ones inserted in one commit; an exception is logged and the response is
\* the same
FinishResults(r) ==
    /\ req[r].pc = "committed" /\ req[r].op = "finish"
    /\ LET res == final_results(players_list(players), rounds)
       IN  results' = IF res.raised THEN results ELSE res.rows
    /\ req' = [req EXCEPT ![r] = Done("finish", "ok")]
    /\ UNCHANGED <<pgvars, status, current_round, players, rounds, ratings,
                   rating_history, n_requests>>

\* ------------------------------------------------------------------------
\* administrative status override (AdminTournamentService.force_status_change)
\* ------------------------------------------------------------------------
StatusInputs == TournamentStatus \cup {"cancelled"}

ForceStatusLoad(r, new_status) ==
    /\ Arrives(r)
    /\ req' = [req EXCEPT ![r] =
         IF new_status \notin TournamentStatus
         THEN Done("force_status_change", "InvalidInput")
         ELSE [pc |-> "loaded", op |-> "force_status_change",
               new_status |-> new_status, snap_status |-> status]]
    /\ UNCHANGED <<pgvars, dbvars>>

\* tournament.status = status_update.status; commit
ForceStatusCommit(r) ==
    /\ req[r].pc = "loaded" /\ req[r].op = "force_status_change"
    /\ status' = dirty_write(status, req[r].snap_status, req[r].new_status)
    /\ req' = [req EXCEPT ![r] = Done("force_status_change", "ok")]
    /\ UNCHANGED <<pgvars, current_round, players, rounds, ratings, rating_history, results,
                   n_requests>>

\* ------------------------------------------------------------------------
\* Every handler
\* ------------------------------------------------------------------------
\* the request is cancelled (or its deadline expires) at an await: the
\* session is closed without a commit, nothing it had pending is written
Cancel(r) ==
    /\ req[r].pc \in {"loaded", "committed"}
    /\ req' = [req EXCEPT ![r] = Done(req[r].op, "Cancelled")]
    /\ UNCHANGED <<pgvars, dbvars, n_requests>>

\* get_db: session.close() once the response is out
Close(r) ==
    /\ req[r].pc = "done"
    /\ req' = [req EXCEPT ![r] = Idle]
    /\ UNCHANGED <<pgvars, dbvars, n_requests>>

\* ------------------------------------------------------------------------
\* Elo deltas of one match (elo_service.py), in exact rational arithmetic
\* ------------------------------------------------------------------------
K_FACTOR_NEW_PLAYER == 40
K_FACTOR_NORMAL == 20
K_FACTOR_EXPERIENCED == 10

RECURSIVE GCD(_, _)
GCD(a, b) == IF b = 0 THEN a ELSE GCD(b, a % b)

Abs(x) == IF x < 0 THEN 0 - x ELSE x

\* the fraction n/d in lowest terms with a positive denominator
Rat(n, d) ==
    LET g == GCD(Abs(n), Abs(d))
        sgn == IF d < 0 THEN 0 - 1 ELSE 1
    IN  [n |-> sgn * (n \div g), d |-> sgn * (d \div g)]

RInt(i) == [n |-> i, d |-> 1]
RNeg(a) == [n |-> 0 - a.n, d |-> a.d]
RAdd(a, b) ==
    LET l == (a.d \div GCD(a.d, b.d)) * b.d
    IN  Rat(a.n * (l \div a.d) + b.n * (l \div b.d), l)
RSub(a, b) == RAdd(a, RNeg(b))
RMul(a, b) ==
    LET x == Rat(a.n, b.d)
        y == Rat(b.n, a.d)
    IN  [n |-> x.n * y.n, d |-> x.d * y.d]
RDiv(a, b) == RMul(a, Rat(b.d, b.n))
RLess(a, b) == RSub(a, b).n < 0
RMin(a, b) == IF RLess(b, a) THEN b ELSE a
RMax(a, b) == IF RLess(a, b) THEN b ELSE a

\* math.pow(10.0, x) for a whole x
pow10(x) == IF x.n >= 0 THEN RInt(10 ^ x.n) ELSE Rat(1, 10 ^ (0 - x.n))

get_k_factor(played) ==
    IF played < 30 THEN K_FACTOR_NEW_PLAYER
    ELSE IF played > 100 THEN K_FACTOR_EXPERIENCED
    ELSE K_FACTOR_NORMAL

effective_k(base_k, total_points, score_diff, team_matches_played_min) ==
    LET margin == IF total_points > 0
                  THEN Rat(Abs(score_diff), Max(1, total_points))
                  ELSE RInt(0)
        lambda_margin == Rat(3, 4)
        u == IF team_matches_played_min < 5 THEN Rat(5, 4)
             ELSE IF team_matches_played_min < 15 THEN Rat(11, 10)
             ELSE RInt(1)
    IN  RMul(RMul(RInt(base_k), RAdd(RInt(1), RMul(lambda_margin, margin))), u)

\* split weights that ignore the ratings
split_weights_even(r_a, r_b) == <<Rat(1, 2), Rat(1, 2)>>

\* alpha = 0.25 and gap_cap = 200.0 are the defaults every call uses
split_weights(r_a, r_b) ==
    LET gap_cap == RInt(200)
        g_ab == RMax(RNeg(gap_cap), RMin(gap_cap, RSub(r_b, r_a)))
        w_a_raw == RAdd(Rat(1, 2), RMul(Rat(1, 4), RDiv(g_ab, RMul(RInt(2), gap_cap))))
        w_b_raw == RSub(RInt(1), w_a_raw)
        t == RAdd(w_a_raw, w_b_raw)
    IN  <<RDiv(w_a_raw, t), RDiv(w_b_raw, t)>>

expected_score(r_team, r_opp_team) ==
    RDiv(RInt(1), RAdd(RInt(1), pow10(RDiv(RSub(r_opp_team, r_team), RInt(400)))))

\* the base K of team 1: get_k_factor of the smaller matches_played
k1_base(played) == get_k_factor(Min(played[1], played[2]))

\* delta_team1 of a match: pre holds the four current ratings and played
\* the four matches_played, in the order t1p1, t1p2, t2p1, t2p2
team1_delta(pre, played, team1_score, team2_score) ==
    LET team1_rating == RDiv(RAdd(pre[1], pre[2]), RInt(2))
        team2_rating == RDiv(RAdd(pre[3], pre[4]), RInt(2))
        team1_expected == expected_score(team1_rating, team2_rating)
        total_points == team1_score + team2_score
        team1_actual == IF total_points > 0 THEN Rat(team1_score, total_points)
                        ELSE IF team1_score > team2_score THEN RInt(1) ELSE RInt(0)
        score_diff == team1_score - team2_score
        team1_min_matches == Min(played[1], played[2])
        k1_eff == effective_k(k1_base(played), total_points, score_diff, team1_min_matches)
    IN  RMul(k1_eff, RSub(team1_actual, team1_expected))

\* rating changes where each team's delta comes from its own K
rating_changes_own_k(pre, played, team1_score, team2_score) ==
    LET delta_team1 == team1_delta(pre, played, team1_score, team2_score)
        delta_team2 == team1_delta(<<pre[3], pre[4], pre[1], pre[2]>>,
                                   <<played[3], played[4], played[1], played[2]>>,
                                   team2_score, team1_score)
        w1 == split_weights(pre[1], pre[2])
        w2 == split_weights(pre[3], pre[4])
    IN  [delta_team1 |-> delta_team1,
         delta_team2 |-> delta_team2,
         deltas |-> <<RMul(w1[1], delta_team1), RMul(w1[2], delta_team1),
                      RMul(w2[1], delta_team2), RMul(w2[2], delta_team2)>>]

\* the rating_changes update_match_ratings returns, in the order t1p1, t1p2,
\* t2p1, t2p2, with the two team deltas they were split from
rating_changes(pre, played, team1_score, team2_score) ==
    LET delta_team1 == team1_delta(pre, played, team1_score, team2_score)
        delta_team2 == RNeg(delta_team1)
        w1 == split_weights(pre[1], pre[2])
        w2 == split_weights(pre[3], pre[4])
    IN  [delta_team1 |-> delta_team1,
         delta_team2 |-> delta_team2,
         deltas |-> <<RMul(w1[1], delta_team1), RMul(w1[2], delta_team1),
                      RMul(w2[1], delta_team2), RMul(w2[2], delta_team2)>>]

\* current ratings the four players may hold before the match
RatingInputs == {800, 1000, 1100, 1200, 1500}

\* matches_played on either side of the thresholds of K and of the
\* uncertainty factor
PlayedInputs == {0, 10, 50, 200}

\* the matches whose team ratings differ by a whole multiple of 400, so
\* that the power of ten in expected_score is a fraction
EloInputs ==
    { a \in [pre : [1..4 -> RatingInputs],
             played : { <<x, y, z, z>> : x \in PlayedInputs, y, z \in {50, 200} },
             team1_score : 0..(PointsPerMatch + 1),
             team2_score : 0..(PointsPerMatch + 1)] :
        ((a.pre[3] + a.pre[4]) - (a.pre[1] + a.pre[2])) % 800 = 0 }

InitElo ==
    /\ pg_players = <<>>
    /\ pg_called = FALSE
    /\ pg_result = [raised |-> FALSE, rounds |-> <<>>]
    /\ fn_args \in EloInputs
    /\ fn_result = NotCalled
    /\ InitDb({})

UpdateMatchRatings ==
    /\ fn_result = NotCalled
    /\ LET pre == [i \in 1..4 |-> RInt(fn_args.pre[i])]
           rc == rating_changes(pre, fn_args.played, fn_args.team1_score,
                                fn_args.team2_score)
       IN  fn_result' = [fn |-> "update_match_ratings",
                         value |-> [rating_changes |-> rc.deltas,
                                    delta_team1 |-> rc.delta_team1,
                                    delta_team2 |-> rc.delta_team2,
                                    k1_base |-> k1_base(fn_args.played),
                                    current_rating |->
                                        [i \in 1..4 |-> RAdd(pre[i], rc.deltas[i])]]]
    /\ UNCHANGED <<pg_players, pg_called, pg_result, fn_args, dbvars, req, n_requests>>

NextElo == UpdateMatchRatings

SpecElo == InitElo /\ [][NextElo]_vars

\* ------------------------------------------------------------------------
\* Rating rows over a sequence of updates (elo_service.py)
\* ------------------------------------------------------------------------
INITIAL_RATING == 1000

\* the PlayerRating get_or_create_rating creates, ratings included
NewPlayerRating ==
    NewRating @@ [current_rating |-> RInt(INITIAL_RATING),
                  peak_rating    |-> RInt(INITIAL_RATING),
                  lowest_rating  |-> RInt(INITIAL_RATING)]

PlayerRatingOf(rs, user_id) ==
    IF user_id \in DOMAIN rs THEN rs[user_id] ELSE NewPlayerRating

MatchPlayerIds(m) ==
    <<m.team1_player1_id, m.team1_player2_id, m.team2_player1_id, m.team2_player2_id>>

\* the pre-update snapshot of the four current ratings
pre_ratings(rs, m) ==
    [i \in 1..4 |-> PlayerRatingOf(rs, MatchPlayerIds(m)[i]).current_rating]

\* whether (r_opp_team - r_team) / 400 is whole, so that the power of ten in
\* expected_score is a fraction
WholeExponent(rs, m) ==
    LET pre == pre_ratings(rs, m)
    IN  RDiv(RSub(RAdd(pre[3], pre[4]), RAdd(pre[1], pre[2])), RInt(800)).d = 1

\* update_match_ratings on rows with their ratings: the deltas, then for
\* each of the four players current, peak, lowest and the counters
update_player_ratings(rs, m) ==
    LET ids == MatchPlayerIds(m)
        played == [i \in 1..4 |-> PlayerRatingOf(rs, ids[i]).matches_played]
        rc == rating_changes(pre_ratings(rs, m), played, m.team1_score, m.team2_score)
        updated(i) ==
            LET old == PlayerRatingOf(rs, ids[i])
                new_rating == RAdd(old.current_rating, rc.deltas[i])
                own == IF i <= 2 THEN m.team1_score ELSE m.team2_score
                other == IF i <= 2 THEN m.team2_score ELSE m.team1_score
            IN  [apply_update(old, own, other) EXCEPT
                   !.current_rating = new_rating,
                   !.peak_rating    = RMax(old.peak_rating, new_rating),
                   !.lowest_rating  = RMin(old.lowest_rating, new_rating)]
    IN  [u \in DOMAIN rs \cup SeqToSet(ids) |->
            IF u \in SeqToSet(ids)
            THEN updated(CHOOSE i \in 1..4 : ids[i] = u)
            ELSE rs[u]]

\* a started four-player tournament and no rating row yet
InitRatings ==
    /\ pg_players = <<>>
    /\ pg_called = FALSE
    /\ pg_result = [raised |-> FALSE, rounds |-> <<>>]
    /\ fn_args = <<>>
    /\ fn_result = NotCalled
    /\ status = ACTIVE
    /\ current_round = 1
    /\ players = 1..4
    /\ rounds = new_round_rows(generate_rounds(<<1, 2, 3, 4>>).rounds)
    /\ ratings = << >>
    /\ rating_history = EmptyBag
    /\ results = {}
    /\ req = [r \in Slots |-> Idle]
    /\ n_requests = 0

\* one update_match_ratings, on a match that carries its result
ApplyRatingUpdate(match_id, team1_score, team2_score) ==
    /\ n_requests < MaxUpdates
    /\ match_id \in DOMAIN rounds
    /\ LET m == [rounds[match_id] EXCEPT !.team1_score = team1_score,
                                        !.team2_score = team2_score,
                                        !.is_completed = TRUE]
       IN  /\ WholeExponent(ratings, m)
           /\ rounds' = [rounds EXCEPT ![match_id] = m]
           /\ ratings' = update_player_ratings(ratings, m)
           /\ rating_history' = rating_history (+) history_rows(match_id, m)
    /\ n_requests' = n_requests + 1
    /\ UNCHANGED <<pgvars, status, current_round, players, results, req>>

NextRatings ==
    \E match_id \in 1..3, team1_score, team2_score \in 0..(PointsPerMatch + 1) :
        ApplyRatingUpdate(match_id, team1_score, team2_score)

SpecRatings == InitRatings /\ [][NextRatings]_vars

\* ------------------------------------------------------------------------
\* The planner helpers (AmericanoTournamentService, static methods)
\* ------------------------------------------------------------------------
\* for points in range(48, 15, -4): the first target that fits, else 16;
\* total_matches * minutes_per_match / courts <= available_hours * 60,
\* compared in seconds
RECURSIVE optimal_points_loop(_, _, _, _)
optimal_points_loop(points, total_matches, courts, available_hours) ==
    IF points < 16 THEN 16
    ELSE IF total_matches * (points * 25 + 60) <= available_hours * 3600 * courts
         THEN points
         ELSE optimal_points_loop(points - 4, total_matches, courts, available_hours)

\* seconds_per_point = 25 and resting_between_matches_seconds = 60 are the
\* defaults
calculate_optimal_points_per_match(num_players, courts, available_hours) ==
    IF num_players < 4 \/ num_players % 2 # 0 \/ courts < 1 \/ available_hours <= 0
    THEN [raised |-> TRUE]
    ELSE LET total_rounds == num_players - 1
             matches_per_round == num_players \div 4
             total_matches == total_rounds * matches_per_round
         IN  [raised |-> FALSE,
              points |-> optimal_points_loop(48, total_matches, courts, available_hours)]

\* int(total_minutes) is the whole part of total_matches * seconds_per_match
\* / (60 * courts)
estimate_duration(num_players, courts, points_per_game) ==
    IF num_players < 4 \/ num_players % 2 # 0 \/ courts < 1
    THEN [raised |-> TRUE]
    ELSE LET total_rounds == num_players - 1
             matches_per_round == num_players \div 4
             total_matches == total_rounds * matches_per_round
             seconds_per_match == points_per_game * 25 + 60
         IN  [raised |-> FALSE,
              minutes |-> (total_matches * seconds_per_match) \div (60 * courts),
              rounds |-> total_rounds]

PlannerInputs ==
    [num_players : 0..(4 * MaxGroups),
     courts : 0..MaxCourts,
     available_hours : 0..MaxHours,
     points_per_game : {16, 21}]

InitPlanner ==
    /\ pg_players = <<>>
    /\ pg_called = FALSE
    /\ pg_result = [raised |-> FALSE, rounds |-> <<>>]
    /\ fn_args \in PlannerInputs
    /\ fn_result = NotCalled
    /\ InitDb({})

EstimateDuration ==
    /\ fn_result = NotCalled
    /\ fn_result' = [fn |-> "estimate_duration",
                     value |-> estimate_duration(fn_args.num_players, fn_args.courts,
                                                 fn_args.points_per_game)]
    /\ UNCHANGED <<pg_players, pg_called, pg_result, fn_args, dbvars, req, n_requests>>

CalculateOptimalPointsPerMatch ==
    /\ fn_result = NotCalled
    /\ fn_result' = [fn |-> "calculate_optimal_points_per_match",
                     value |-> calculate_optimal_points_per_match(
                                   fn_args.num_players, fn_args.courts,
                                   fn_args.available_hours)]
    /\ UNCHANGED <<pg_players, pg_called, pg_result, fn_args, dbvars, req, n_requests>>

NextPlanner ==
    \/ EstimateDuration
    \/ CalculateOptimalPointsPerMatch

SpecPlanner == InitPlanner /\ [][NextPlanner]_vars

\* ------------------------------------------------------------------------
\* The scoring functions called on their own
\* ------------------------------------------------------------------------
\* the roster in the orders a session may load it
ScoringRosters ==
    { [i \in 1..4 |-> ((i - 1 + k) % 4) + 1] : k \in 0..3 } \cup { <<4, 3, 2, 1>> }

\* what a match of the list may hold: any scores with the completion flag
\* set, and with it unset the defaults or a score left behind
MatchStates ==
    { [team1_score |-> a, team2_score |-> b, is_completed |-> TRUE] :
          a, b \in 0..(PointsPerMatch + 1) }
      \cup { [team1_score |-> 0, team2_score |-> 0, is_completed |-> FALSE],
             [team1_score |-> PointsPerMatch, team2_score |-> 0, is_completed |-> FALSE] }

\* the matches of a four-player tournament, each in one of those states
ScoringMatchLists ==
    LET schedule == new_round_rows(generate_rounds(<<1, 2, 3, 4>>).rounds)
    IN  { [k \in 1..Len(schedule) |->
              [schedule[k] EXCEPT !.team1_score  = st[k].team1_score,
                                  !.team2_score  = st[k].team2_score,
                                  !.is_completed = st[k].is_completed]] :
          st \in [1..Len(schedule) -> MatchStates] }

\* an eight-player roster in two orders, and the matches of its tournament
\* with the two matches of round 1 in any state and the later ones not played
ScoringRostersOfEight ==
    { [i \in 1..8 |-> i], [i \in 1..8 |-> 9 - i] }

ScoringMatchListsOfEight ==
    LET schedule == new_round_rows(generate_rounds([i \in 1..8 |-> i]).rounds)
    IN  { [k \in 1..Len(schedule) |->
              IF k <= 2
              THEN [schedule[k] EXCEPT !.team1_score  = st[k].team1_score,
                                       !.team2_score  = st[k].team2_score,
                                       !.is_completed = st[k].is_completed]
              ELSE schedule[k]] :
          st \in [1..2 -> MatchStates] }

ScoringInputs ==
    [player_ids : ScoringRosters, matches : ScoringMatchLists]
      \cup [player_ids : ScoringRostersOfEight, matches : ScoringMatchListsOfEight]

InitScoring ==
    /\ pg_players = <<>>
    /\ pg_called = FALSE
    /\ pg_result = [raised |-> FALSE, rounds |-> <<>>]
    /\ fn_args \in ScoringInputs
    /\ fn_result = NotCalled
    /\ InitDb({})

CalculatePlayerScores ==
    /\ fn_result = NotCalled
    /\ fn_result' = [fn |-> "calculate_player_scores",
                     value |-> calculate_player_scores(fn_args.player_ids, fn_args.matches)]
    /\ UNCHANGED <<pg_players, pg_called, pg_result, fn_args, dbvars, req, n_requests>>

CalculatePlayerStatistics ==
    /\ fn_result = NotCalled
    /\ fn_result' = [fn |-> "calculate_player_statistics",
                     value |-> calculate_player_statistics(fn_args.player_ids,
                                                           fn_args.matches)]
    /\ UNCHANGED <<pg_players, pg_called, pg_result, fn_args, dbvars, req, n_requests>>

GetTournamentLeaderboard ==
    /\ fn_result = NotCalled
    /\ fn_result' = [fn |-> "get_tournament_leaderboard",
                     value |-> get_tournament_leaderboard(fn_args.player_ids,
                                                          fn_args.matches)]
    /\ UNCHANGED <<pg_players, pg_called, pg_result, fn_args, dbvars, req, n_requests>>

\* the winner of a tournament that has been completed
GetTournamentWinner ==
    /\ fn_result = NotCalled
    /\ fn_result' = [fn |-> "get_tournament_winner",
                     value |-> get_tournament_winner(COMPLETED, fn_args.player_ids,
                                                     fn_args.matches)]
    /\ UNCHANGED <<pg_players, pg_called, pg_result, fn_args, dbvars, req, n_requests>>

NextScoring ==
    \/ CalculatePlayerScores
    \/ CalculatePlayerStatistics
    \/ GetTournamentLeaderboard
    \/ GetTournamentWinner

SpecScoring == InitScoring /\ [][NextScoring]_vars

\* ------------------------------------------------------------------------
\* Specifications
\* ------------------------------------------------------------------------
\* a tournament from its creation to its start
NextSetup ==
    \E r \in Slots :
        \/ \E p \in Users \cup {0} : JoinLoad(r, p)
        \/ JoinCommit(r)
        \/ \E p \in Users \cup {0} : LeaveLoad(r, p)
        \/ LeaveCommit(r)
        \/ \E p \in Users \cup {0}, o \in OrganizerInputs : AddPlayerLoad(r, p, o)
        \/ AddPlayerCommit(r)
        \/ \E p \in Users \cup {0}, o \in OrganizerInputs : RemovePlayerLoad(r, p, o)
        \/ RemovePlayerCommit(r)
        \/ StartLoad(r)
        \/ StartCommit(r)
        \/ FinishLoad(r)
        \/ FinishCommit(r)
        \/ FinishResults(r)
        \/ Cancel(r)
        \/ Close(r)

SpecSetup == InitSetup /\ [][NextSetup]_vars

\* a tournament of four players from the commit of its start
StartedRoster == {1, 2, 3, 4}

Init ==
    /\ pg_players = <<>>
    /\ pg_called = FALSE
    /\ pg_result = [raised |-> FALSE, rounds |-> <<>>]
    /\ fn_args = <<>>
    /\ fn_result = NotCalled
    /\ status = ACTIVE
    /\ current_round = 1
    /\ players = StartedRoster
    /\ rounds = new_round_rows(generate_rounds(players_list(StartedRoster)).rounds)
    /\ ratings = << >>
    /\ rating_history = EmptyBag
    /\ results = {}
    /\ req = [r \in Slots |-> Idle]
    /\ n_requests = 0

Next ==
    \E r \in Slots :
        \/ \E id \in MatchIds \cup {NoMatch}, s1, s2 \in ScoreInputs : RecordLoad(r, id, s1, s2)
        \/ RecordCommit(r)
        \/ RecordAdvance(r)
        \/ \E id \in MatchIds \cup {NoMatch}, s1, s2 \in ScoreInputs :
               AdminResultLoad(r, id, s1, s2)
        \/ AdminResultCommit(r)
        \/ FinishLoad(r)
        \/ FinishCommit(r)
        \/ FinishResults(r)
        \/ \E s \in StatusInputs : ForceStatusLoad(r, s)
        \/ ForceStatusCommit(r)
        \/ Cancel(r)
        \/ Close(r)

Spec == Init /\ [][Next]_vars

\* ------------------------------------------------------------------------
\* Properties of the schedule
\* ------------------------------------------------------------------------
\* all matches of a schedule, in order
AllMatches(schedule) == Flatten(schedule)

Teammates(m, p, q) == {p, q} = {m[1], m[2]} \/ {p, q} = {m[3], m[4]}

Opponents(m, p, q) ==
    \/ p \in {m[1], m[2]} /\ q \in {m[3], m[4]}
    \/ q \in {m[1], m[2]} /\ p \in {m[3], m[4]}

RosterOf(player_ids) == {player_ids[i] : i \in 1..Len(player_ids)}

Scheduled == pg_called /\ ~pg_result.raised

\* C1: in the schedule generate_rounds returns, every unordered pair of
\* distinct players are teammates in exactly one match, so the schedule
\* holds C(N,2) partnerships, none repeated and none missing.
PartnershipUniqueness ==
    Scheduled =>
        LET ms == AllMatches(pg_result.rounds)
            N  == Len(pg_players)
        IN  /\ \A p, q \in RosterOf(pg_players) :
                   p < q => Cardinality({k \in 1..Len(ms) : Teammates(ms[k], p, q)}) = 1
            /\ 2 * Len(ms) = (N * (N - 1)) \div 2

PartnershipWitness ==
    /\ Scheduled
    /\ Len(pg_players) >= 8
    /\ Len(AllMatches(pg_result.rounds)) > 0

\* C2: for a valid roster of N players generate_rounds returns N-1 rounds of
\* N/4 matches each, and in every round every roster player occupies exactly
\* one match position.
RoundCoverage ==
    (pg_called /\ validate_player_count(Len(pg_players))) =>
        LET schedule == pg_result.rounds
            N        == Len(pg_players)
        IN  /\ ~pg_result.raised
            /\ Len(schedule) = N - 1
            /\ \A r \in 1..Len(schedule) :
                   /\ Len(schedule[r]) = N \div 4
                   /\ \A p \in RosterOf(pg_players) :
                          Cardinality({<<k, j>> \in (1..Len(schedule[r])) \X (1..4) :
                                          schedule[r][k][j] = p}) = 1

RoundCoverageWitness ==
    /\ pg_called
    /\ validate_player_count(Len(pg_players))
    /\ Len(pg_result.rounds) >= 7
    /\ pg_players[1] # 1

StatusRank(s) == IF s = PENDING THEN 1 ELSE IF s = ACTIVE THEN 2 ELSE 3

\* matches of a full schedule for N players
MatchesOf(N) == ((N - 1) * N) \div 4

InvalidPair(s1, s2) == s1 < 0 \/ s2 < 0 \/ s1 + s2 # PointsPerMatch

\* C4: no operation moves the status of a tournament backwards, from
\* completed to active or pending or from active to pending.
StatusMonotonic ==
    [][StatusRank(status') >= StatusRank(status)]_vars

\* C5: record_match_result rejects every pair of scores with a negative
\* score or a sum other than points_per_match, with an invalid-score error
\* when the match exists and the tournament is not completed, and a rejection
\* leaves the rounds, the ratings, their history and current_round as they
\* were; a pair of non-negative scores with the right sum on a match of a
\* tournament that is not completed is accepted with those scores.
RecordRejectsInvalidScores ==
    [][\A r \in Slots, id \in MatchIds, s1, s2 \in ScoreInputs :
          RecordLoad(r, id, s1, s2) =>
             IF InvalidPair(s1, s2)
             THEN /\ req'[r].pc = "done"
                  /\ req'[r].resp \in {"InvalidScore", "WrongStatus"}
                  /\ status # COMPLETED => req'[r].resp = "InvalidScore"
                  /\ UNCHANGED dbvars
             ELSE status # COMPLETED =>
                  /\ req'[r].pc = "loaded"
                  /\ req'[r].match_id = id
                  /\ req'[r].team1_score = s1
                  /\ req'[r].team2_score = s2]_vars

\* C5 witness: one request was rejected for its scores while another's
\* result went in.
RecordRejectsWitness ==
    \E r, q \in Slots :
        /\ req[r] = Done("record", "InvalidScore")
        /\ req[q] = Done("record", "ok")
        /\ \E id \in MatchIds : rounds[id].is_completed

\* C6: a match's result is recorded once: no player's rating row counts more
\* matches than the completed matches the player is in.
CompletedMatchesOf(u) ==
    {id \in MatchIds : rounds[id].is_completed /\ u \in Team1(rounds[id]) \cup Team2(rounds[id])}

RecordedOnce ==
    \A u \in DOMAIN ratings :
        ratings[u].matches_played <= Cardinality(CompletedMatchesOf(u))

\* C7: start is all or nothing. A start that commits on a pending tournament
\* leaves it active in round 1 with the (N-1)*N/4 matches of the schedule,
\* N/4 in each of the rounds 1..N-1 and none completed; a start that ends in
\* any other way writes nothing; nothing else adds a match or takes the
\* tournament out of pending, and a pending tournament has no match.
StartAllOrNothing ==
    [][/\ \A r \in Slots :
            (req[r].pc = "loaded" /\ req[r].op = "start" /\ req'[r] # req[r]) =>
               LET N == Cardinality(req[r].snap_players)
               IN  \/ /\ req'[r] = Done("start", "ok")
                      /\ status' = ACTIVE
                      /\ current_round' = 1
                      /\ Len(rounds') = Len(rounds) + MatchesOf(N)
                      /\ \A n \in 1..(N - 1) :
                            Cardinality({k \in (Len(rounds) + 1)..Len(rounds') :
                                rounds'[k].round_number = n /\ ~rounds'[k].is_completed})
                              = N \div 4
                      /\ status = PENDING => Len(rounds') = MatchesOf(N)
                   \/ /\ req'[r].pc = "done" /\ req'[r].resp # "ok"
                      /\ UNCHANGED dbvars
       /\ (rounds' # rounds \/ (status = PENDING /\ status' # PENDING)) =>
            \E r \in Slots : /\ req[r].pc = "loaded" /\ req[r].op = "start"
                             /\ req'[r] = Done("start", "ok")
       /\ status' = PENDING => rounds' = <<>>]_vars

\* C7 witness: one start was cancelled before its commit and left nothing,
\* another went through.
StartAllOrNothingWitness ==
    \E r, q \in Slots :
        /\ req[r] = Done("start", "Cancelled")
        /\ req[q] = Done("start", "ok")
        /\ status = ACTIVE /\ current_round = 1
        /\ Len(rounds) = MatchesOf(Cardinality(players))

\* C8: of the start calls on a tournament at most one succeeds.
AtMostOneStart ==
    Cardinality({r \in Slots : req[r] = Done("start", "ok")}) <= 1

\* C9: start on a pending tournament with fewer than 4 players, or a number
\* of players that 4 does not divide, fails with an invalid-roster error,
\* adds no match and leaves the tournament pending.
StartRejectsInvalidRoster ==
    [][\A r \in Slots :
          (/\ StartLoad(r)
           /\ status = PENDING
           /\ (Cardinality(players) < 4 \/ Cardinality(players) % 4 # 0)) =>
             /\ req'[r] = Done("start", "InvalidRoster")
             /\ rounds' = rounds /\ rounds' = <<>>
             /\ status' = PENDING
             /\ UNCHANGED dbvars]_vars

\* C9 witness: a start was refused for a roster of five.
StartRejectsWitness ==
    \E r \in Slots :
        /\ req[r] = Done("start", "InvalidRoster")
        /\ Cardinality(players) = 5
        /\ status = PENDING /\ rounds = <<>>

\* C10: while every completed match was completed by record-result,
\* current_round changes only by +1, below the last round, and only in the
\* step of a record-result on a match of round current_round that leaves
\* every match of that round completed.
RecordedThroughRecord ==
    \A id \in MatchIds : rounds[id].is_completed =>
        \E e \in BagToSet(rating_history) : e.match_id = id

RoundAdvancesWithItsLastMatch ==
    [][(RecordedThroughRecord /\ current_round' # current_round) =>
          /\ current_round' = current_round + 1
          /\ current_round < Cardinality(players) - 1
          /\ \E r \in Slots :
                /\ req[r].pc = "committed" /\ req[r].op = "record"
                /\ req'[r] = Done("record", "ok")
                /\ rounds[req[r].match_id].round_number = current_round
          /\ \A id \in MatchIds :
                rounds[id].round_number = current_round => rounds[id].is_completed]_vars


\* C11: while the tournament is completed, no step of a record-result
\* request changes a match, a rating, the rating history or current_round.
RecordStep(r) ==
    /\ req[r].pc # "idle"
    /\ req[r].op = "record"
    /\ req'[r] # req[r]

NoRecordAfterCompleted ==
    [][(status = COMPLETED /\ \E r \in Slots : RecordStep(r)) =>
          UNCHANGED <<rounds, ratings, rating_history, current_round>>]_vars

\* C12: finish on a tournament that is already completed does not fail.
FinishOnCompletedSucceeds ==
    [][\A r \in Slots :
          (FinishLoad(r) /\ status = COMPLETED) => req'[r].resp = "ok"]_vars

\* what a player has earned and conceded over the completed matches of a
\* list of matches, match by match
OwnScore(m, p) ==
    IF p \in Team1(m) THEN m.team1_score ELSE IF p \in Team2(m) THEN m.team2_score ELSE 0

OtherScore(m, p) ==
    IF p \in Team1(m) THEN m.team2_score ELSE IF p \in Team2(m) THEN m.team1_score ELSE 0

PointsEarned(p, ms) ==
    SumSeq([k \in 1..Len(ms) |-> IF ms[k].is_completed THEN OwnScore(ms[k], p) ELSE 0])

PointsConceded(p, ms) ==
    SumSeq([k \in 1..Len(ms) |-> IF ms[k].is_completed THEN OtherScore(ms[k], p) ELSE 0])

RosterIndex(player_ids, p) == CHOOSE i \in DOMAIN player_ids : player_ids[i] = p

\* every match with its two teams, and their scores, exchanged
SwapTeams(ms) ==
    [k \in DOMAIN ms |->
        [ms[k] EXCEPT !.team1_player1_id = ms[k].team2_player1_id,
                      !.team1_player2_id = ms[k].team2_player2_id,
                      !.team2_player1_id = ms[k].team1_player1_id,
                      !.team2_player2_id = ms[k].team1_player2_id,
                      !.team1_score      = ms[k].team2_score,
                      !.team2_score      = ms[k].team1_score]]

\* C14: the leaderboard lists every roster player once, with the player's
\* total points, by descending total points, then descending points
\* difference, then roster order, and ranks are 1, 2, 3, ... in list order.
LeaderboardOrder ==
    fn_result.fn = "get_tournament_leaderboard" =>
        LET L == fn_result.value.list
            ids == fn_args.player_ids
        IN  /\ ~fn_result.value.raised
            /\ Len(L) = Len(ids)
            /\ {L[i].player_id : i \in DOMAIN L} = SeqToSet(ids)
            /\ \A i \in DOMAIN L :
                  /\ L[i].rank = i
                  /\ L[i].score = PointsEarned(L[i].player_id, fn_args.matches)
                  /\ L[i].points_difference
                       = PointsEarned(L[i].player_id, fn_args.matches)
                         - PointsConceded(L[i].player_id, fn_args.matches)
            /\ \A i, j \in DOMAIN L :
                  i < j =>
                     \/ L[i].score > L[j].score
                     \/ /\ L[i].score = L[j].score
                        /\ L[i].points_difference > L[j].points_difference
                     \/ /\ L[i].score = L[j].score
                        /\ L[i].points_difference = L[j].points_difference
                        /\ RosterIndex(ids, L[i].player_id) < RosterIndex(ids, L[j].player_id)

\* C14 witness: a leaderboard with two players level on both keys and a
\* third ahead of them, for a roster that is not in ascending order.
LeaderboardWitness ==
    /\ fn_result.fn = "get_tournament_leaderboard"
    /\ fn_args.player_ids = <<4, 3, 2, 1>>
    /\ \E i, j, k \in DOMAIN fn_result.value.list :
          LET L == fn_result.value.list
          IN  /\ i < j /\ j < k
              /\ L[i].score > L[j].score
              /\ L[j].score = L[k].score
              /\ L[j].points_difference = L[k].points_difference

\* C15: calculate_player_scores and calculate_player_statistics give every
\* roster player the sum of the player's own team score over the completed
\* matches of the list; a match that is not completed adds nothing; the
\* points difference is points earned minus points conceded.
ScoresSumCompletedMatches ==
    /\ fn_result.fn = "calculate_player_scores" =>
          /\ ~fn_result.value.raised
          /\ DOMAIN fn_result.value.scores = SeqToSet(fn_args.player_ids)
          /\ \A p \in SeqToSet(fn_args.player_ids) :
                fn_result.value.scores[p] = PointsEarned(p, fn_args.matches)
    /\ fn_result.fn = "calculate_player_statistics" =>
          /\ ~fn_result.value.raised
          /\ DOMAIN fn_result.value.stats = SeqToSet(fn_args.player_ids)
          /\ \A p \in SeqToSet(fn_args.player_ids) :
                /\ fn_result.value.stats[p].total_points = PointsEarned(p, fn_args.matches)
                /\ fn_result.value.stats[p].points_difference
                     = PointsEarned(p, fn_args.matches) - PointsConceded(p, fn_args.matches)

\* C15 witness: scores computed for a list with a scored match that is not
\* completed next to a completed one.
ScoresSumWitness ==
    /\ fn_result.fn = "calculate_player_scores"
    /\ \E k, n \in DOMAIN fn_args.matches :
          /\ ~fn_args.matches[k].is_completed /\ fn_args.matches[k].team1_score > 0
          /\ fn_args.matches[n].is_completed /\ fn_args.matches[n].team1_score > 0
    /\ \E p \in SeqToSet(fn_args.player_ids) : fn_result.value.scores[p] > 0

\* C16: with the two teams and the two scores of every match exchanged,
\* calculate_player_statistics gives every player the same total points and
\* the same points difference: the exchange only renames the teams.
SwapKeepsTotalsAndDifference ==
    fn_result.fn = "calculate_player_statistics" =>
        LET swapped == calculate_player_statistics(fn_args.player_ids,
                                                   SwapTeams(fn_args.matches))
        IN  /\ ~swapped.raised
            /\ \A p \in SeqToSet(fn_args.player_ids) :
                  /\ swapped.stats[p].total_points
                       = fn_result.value.stats[p].total_points
                  /\ swapped.stats[p].points_difference
                       = fn_result.value.stats[p].points_difference

\* C16 as stated: with the two teams and the two scores of every match
\* exchanged, every player keeps the total points and gets the opposite
\* points difference.
SwapKeepsTotalsFlipsDifference ==
    fn_result.fn = "calculate_player_statistics" =>
        LET swapped == calculate_player_statistics(fn_args.player_ids,
                                                   SwapTeams(fn_args.matches))
        IN  /\ ~swapped.raised
            /\ \A p \in SeqToSet(fn_args.player_ids) :
                  /\ swapped.stats[p].total_points
                       = fn_result.value.stats[p].total_points
                  /\ swapped.stats[p].points_difference
                       = 0 - fn_result.value.stats[p].points_difference

\* C16 witness: statistics for a list with a completed match that one team
\* won, so that some points difference is not zero.
SwapWitness ==
    /\ fn_result.fn = "calculate_player_statistics"
    /\ \E k \in DOMAIN fn_args.matches :
          /\ fn_args.matches[k].is_completed
          /\ fn_args.matches[k].team1_score > fn_args.matches[k].team2_score
    /\ \E p \in SeqToSet(fn_args.player_ids) :
          fn_result.value.stats[p].points_difference > 0

\* ------------------------------------------------------------------------
\* Properties of the rating update
\* ------------------------------------------------------------------------
RSum4(q) == RAdd(RAdd(q[1], q[2]), RAdd(q[3], q[4]))
RPositive(a) == a.n > 0
RNegative(a) == a.n < 0
RLeq(a, b) == ~RLess(b, a)

\* C17: the four deltas of a match sum to zero: team 2's delta is the
\* negation of team 1's, each team's two split weights sum to 1, and so the
\* sum of the four current ratings is the same after the update as before.
RatingConservation ==
    fn_result.fn = "update_match_ratings" =>
        LET v == fn_result.value
            pre == [i \in 1..4 |-> RInt(fn_args.pre[i])]
        IN  /\ RSum4(v.rating_changes) = RInt(0)
            /\ v.delta_team2 = RNeg(v.delta_team1)
            /\ RAdd(v.rating_changes[1], v.rating_changes[2]) = v.delta_team1
            /\ RAdd(v.rating_changes[3], v.rating_changes[4]) = v.delta_team2
            /\ RSum4(v.current_rating) = RSum4(pre)

\* C17 witness: an update that moved ratings, between teammates of
\* different ratings on both teams.
RatingConservationWitness ==
    /\ fn_result.fn = "update_match_ratings"
    /\ fn_result.value.delta_team1.n # 0
    /\ fn_args.pre[1] # fn_args.pre[2]
    /\ fn_args.pre[3] # fn_args.pre[4]
    /\ fn_result.value.current_rating[1] # RInt(fn_args.pre[1])

\* the claims about one team, whose players sit at positions a and b of the
\* match and whose opponents sit at c and d
TeamGains(a, b, c, d, team_delta) ==
    RPositive(team_delta) =>
        LET ch == fn_result.value.rating_changes
        IN  /\ RPositive(ch[a]) /\ RPositive(ch[b])
            /\ RNegative(ch[c]) /\ RNegative(ch[d])
            /\ fn_args.pre[a] <= fn_args.pre[b] => RLeq(ch[b], ch[a])
            /\ fn_args.pre[b] <= fn_args.pre[a] => RLeq(ch[a], ch[b])
            /\ fn_args.pre[a] < fn_args.pre[b] => RLess(ch[b], ch[a])
            /\ fn_args.pre[b] < fn_args.pre[a] => RLess(ch[a], ch[b])

TeamLossShielded(a, b, team_delta) ==
    RNegative(team_delta) =>
        LET ch == fn_result.value.rating_changes
        IN  /\ fn_args.pre[a] < fn_args.pre[b] => RLeq(RNeg(ch[a]), RNeg(ch[b]))
            /\ fn_args.pre[b] < fn_args.pre[a] => RLeq(RNeg(ch[b]), RNeg(ch[a]))

\* C18: when a team's delta is positive, both its players get a positive
\* delta, the lower-rated of them at least as much as the other and strictly
\* more when their ratings differ, and both opponents get a negative delta.
WinningTeamSplit ==
    fn_result.fn = "update_match_ratings" =>
        /\ TeamGains(1, 2, 3, 4, fn_result.value.delta_team1)
        /\ TeamGains(3, 4, 1, 2, fn_result.value.delta_team2)

\* C18 witness: a positive team delta split between teammates of different
\* ratings, one of them beyond the gap cap on some match and within it on
\* another.
WinningTeamSplitWitness ==
    /\ fn_result.fn = "update_match_ratings"
    /\ RPositive(fn_result.value.delta_team1)
    /\ fn_args.pre[1] < fn_args.pre[2]
    /\ fn_args.pre[2] - fn_args.pre[1] < 200
    /\ fn_args.pre[3] - fn_args.pre[4] > 200
    /\ RLess(fn_result.value.rating_changes[2], fn_result.value.rating_changes[1])

\* C19: when a team's delta is negative, the lower-rated teammate's loss is
\* no larger in magnitude than the higher-rated teammate's loss.
LosingTeamShield ==
    fn_result.fn = "update_match_ratings" =>
        /\ TeamLossShielded(1, 2, fn_result.value.delta_team1)
        /\ TeamLossShielded(3, 4, fn_result.value.delta_team2)

\* ------------------------------------------------------------------------
\* Properties of the stored matches
\* ------------------------------------------------------------------------
\* C20: every completed match has two non-negative scores that sum to the
\* tournament's points_per_match.
CompletedScoresSum ==
    \A id \in MatchIds :
        rounds[id].is_completed =>
            /\ rounds[id].team1_score >= 0
            /\ rounds[id].team2_score >= 0
            /\ rounds[id].team1_score + rounds[id].team2_score = PointsPerMatch

\* C21: every completed match has a rating-history entry for each of its
\* four players.
CompletedMatchHasHistory ==
    \A id \in MatchIds :
        rounds[id].is_completed =>
            \A u \in Team1(rounds[id]) \cup Team2(rounds[id]) :
                \E e \in BagToSet(rating_history) : e.match_id = id /\ e.user_id = u

\* ------------------------------------------------------------------------
\* Properties of the roster
\* ------------------------------------------------------------------------
RosterOps == {"join", "leave", "add_player", "remove_player"}

\* C22: the roster changes only while the tournament is pending, and a
\* join, leave, add-player or remove-player that arrives when it is active
\* or completed fails.
RosterFrozenAfterStart ==
    [][/\ status # PENDING => players' = players
       /\ \A r \in Slots :
             (status # PENDING /\ req[r].pc = "idle" /\ req'[r].pc # "idle"
                /\ req'[r].op \in RosterOps)
               => (req'[r].pc = "done" /\ req'[r].resp # "ok")]_vars

\* C23: the roster never holds more than max_players players, and a join or
\* add-player that finds the tournament full or the player in the roster
\* fails without changing the roster.
RosterWithinMaxPlayers ==
    Cardinality(players) <= MaxPlayers

\* ------------------------------------------------------------------------
\* Properties of the completion of a tournament
\* ------------------------------------------------------------------------
\* C24: once a finish has completed the tournament, every participant's
\* tournaments_played has been incremented and the players ranked 1st, 2nd
\* and 3rd on the leaderboard have their podium counters incremented.
FinishCountsPodium ==
    \A r \in Slots :
        req[r] = Done("finish", "ok") =>
            LET lb == get_tournament_leaderboard(players_list(players), rounds)
                row(i) == get_or_create_rating(ratings, lb.list[i].player_id)
            IN  ~lb.raised =>
                  /\ \A i \in DOMAIN lb.list : row(i).tournaments_played >= 1
                  /\ Len(lb.list) >= 3 =>
                        /\ row(1).first_place_finishes >= 1
                        /\ row(2).second_place_finishes >= 1
                        /\ row(3).third_place_finishes >= 1

\* ------------------------------------------------------------------------
\* Properties of the player-count checks
\* ------------------------------------------------------------------------
\* C25: validate_player_count is true exactly for the sizes from 4 on that
\* are divisible by 4, and generate_rounds raises and returns no schedule
\* for every other roster size, even sizes such as 6 and 10 included.
InvalidCountRejected ==
    /\ \A n \in 0..(4 * MaxGroups + 1) :
          validate_player_count(n) <=> (n >= 4 /\ n % 4 = 0)
    /\ pg_called =>
          /\ pg_result.raised <=> (Len(pg_players) < 4 \/ Len(pg_players) % 4 # 0)
          /\ pg_result.raised => pg_result.rounds = <<>>
          /\ ~pg_result.raised => Len(pg_result.rounds) > 0

\* C25 witness: generate_rounds has raised for a roster of six.
InvalidCountWitness ==
    /\ pg_called
    /\ Len(pg_players) = 6
    /\ pg_result.raised

\* C26: estimate_duration and calculate_optimal_points_per_match raise for
\* every player count that is below 4 or not divisible by 4, the even counts
\* 6, 10, ... included.
PlannerRejectsInvalidCount ==
    (/\ fn_result.fn \in {"estimate_duration", "calculate_optimal_points_per_match"}
     /\ (fn_args.num_players < 4 \/ fn_args.num_players % 4 # 0))
        => fn_result.value.raised

\* ------------------------------------------------------------------------
\* Further properties of the rating update
\* ------------------------------------------------------------------------
\* C27: the base K that scales the team delta is the smaller of the two
\* teammates' K factors.
BaseKIsMinimumOfTeam ==
    fn_result.fn = "update_match_ratings" =>
        fn_result.value.k1_base
          = Min(get_k_factor(fn_args.played[1]), get_k_factor(fn_args.played[2]))

\* ------------------------------------------------------------------------
\* Properties of the winner
\* ------------------------------------------------------------------------
\* C28: the player get_tournament_winner returns for a completed tournament
\* is the rank-1 entry of the leaderboard and the player that the final
\* results give final_position 1.
WinnerIsLeaderboardFirst ==
    fn_result.fn = "get_tournament_winner" =>
        LET lb == get_tournament_leaderboard(fn_args.player_ids, fn_args.matches)
            fr == final_results(fn_args.player_ids, fn_args.matches)
        IN  /\ fn_result.value.found
            /\ fn_result.value.player_id = lb.list[1].player_id
            /\ \E row \in fr.rows :
                  row.final_position = 1 /\ row.player_id = fn_result.value.player_id

UpdatesApplied(u) ==
    BagCardinality([e \in {x \in BagToSet(rating_history) : x.user_id = u} |->
                       CopiesIn(e, rating_history)])

\* C30: every rating row has lowest <= current <= peak, matches_won <=
\* matches_played, total_points_scored <= total_points_possible, and
\* matches_played equal to the number of updates applied to the player.
RatingRowInvariants ==
    \A u \in DOMAIN ratings :
        /\ RLeq(ratings[u].lowest_rating, ratings[u].current_rating)
        /\ RLeq(ratings[u].current_rating, ratings[u].peak_rating)
        /\ ratings[u].matches_won <= ratings[u].matches_played
        /\ ratings[u].total_points_scored <= ratings[u].total_points_possible
        /\ ratings[u].matches_played = UpdatesApplied(u)

\* C30 witness: a player who, after two updates or more, stands strictly
\* between the lowest and the peak rating and has lost a match.
RatingRowWitness ==
    \E u \in DOMAIN ratings :
        /\ ratings[u].matches_played >= 2
        /\ RLess(ratings[u].lowest_rating, ratings[u].current_rating)
        /\ RLess(ratings[u].current_rating, ratings[u].peak_rating)
        /\ ratings[u].matches_won < ratings[u].matches_played

====
